---- MODULE Spec2Model ----
(***************************************************************************)
(* U256 of codechain-primitives (src/value/U256.ts): a 256-bit unsigned    *)
(* integer wrapping a bignumber.js BigNumber, with its RLP encoding        *)
(* (rlpBytes) and its decoder (fromBytes).                                 *)
(*                                                                         *)
(* Representation.  TLC integers are 32 bits wide, so a BigNumber is kept  *)
(* as a record [nan, neg, c, frac]: c is the magnitude of the integer      *)
(* part as a sequence of base-16 digits, most significant first, without   *)
(* leading zeros (zero is the empty sequence); frac says that a non-zero   *)
(* fractional part follows.  Strings are sequences of one-character        *)
(* strings, buffers are sequences of bytes 0..255.                         *)
(***************************************************************************)
EXTENDS Integers, Sequences, FiniteSets, TLC

VARIABLES instances, last

vars == <<instances, last>>

\* ------------------------------------------------------------------ bounds
\* The number of U256 instances a run of the model allocates.
MaxInstances == 2

\* --------------------------------------------------------- program constants
\* MAX_VALUE has 64 hexadecimal digits; the constructor compares against 64.
MaxHexLen == 64
\* fromBytes refuses a declared length above 32.
MaxByteLen == 32
\* The short-string base of the RLP header byte.
RlpBase == 128

\* ------------------------------------------------------------ characters
LowerHex == <<"0","1","2","3","4","5","6","7","8","9","a","b","c","d","e","f">>
DecSet   == {"0","1","2","3","4","5","6","7","8","9"}
LowerSet == DecSet \cup {"a","b","c","d","e","f"}

Rep(x, n) == [i \in 1..n |-> x]
Range(s) == {s[i] : i \in 1..Len(s)}
Front(s) == SubSeq(s, 1, Len(s) - 1)

\* F applied to the value of e.  TLC evaluates a LET definition each time it
\* is used; a bound variable holds a value.
With(e, F(_)) == CHOOSE r \in {F(v) : v \in {e}} : TRUE

\* The value of a digit character of the alphabet 0123456789abcdef.
DigitValue(ch) ==
    CASE ch = "0" -> 0 [] ch = "1" -> 1 [] ch = "2" -> 2 [] ch = "3" -> 3
      [] ch = "4" -> 4 [] ch = "5" -> 5 [] ch = "6" -> 6 [] ch = "7" -> 7
      [] ch = "8" -> 8 [] ch = "9" -> 9 [] ch = "a" -> 10 [] ch = "b" -> 11
      [] ch = "c" -> 12 [] ch = "d" -> 13 [] ch = "e" -> 14 [] ch = "f" -> 15
Values(s) == [i \in 1..Len(s) |-> DigitValue(s[i])]

\* String.prototype.toLowerCase / toUpperCase, character by character.
LowerChar(ch) ==
    CASE ch = "A" -> "a" [] ch = "B" -> "b" [] ch = "C" -> "c" [] ch = "D" -> "d"
      [] ch = "E" -> "e" [] ch = "F" -> "f" [] ch = "X" -> "x" [] OTHER -> ch
UpperChar(ch) ==
    CASE ch = "a" -> "A" [] ch = "b" -> "B" [] ch = "c" -> "C" [] ch = "d" -> "D"
      [] ch = "e" -> "E" [] ch = "f" -> "F" [] ch = "x" -> "X" [] OTHER -> ch
ToLowerCase(s) == [i \in 1..Len(s) |-> LowerChar(s[i])]
ToUpperCase(s) == [i \in 1..Len(s) |-> UpperChar(s[i])]

\* The first index of ch in s, 0 when it does not occur.
FirstIndex(s, ch) ==
    IF ch \in Range(s)
    THEN CHOOSE i \in 1..Len(s) : s[i] = ch /\ \A j \in 1..(i - 1) : s[j] # ch
    ELSE 0

\* ------------------------------------------------- digit-sequence arithmetic
\* A digit sequence without its leading zeros.
StripZeros(c) ==
    IF Range(c) \subseteq {0} THEN <<>>
    ELSE SubSeq(c, CHOOSE i \in 1..Len(c) : c[i] # 0 /\ \A j \in 1..(i - 1) : c[j] = 0,
                Len(c))

\* The base-16 digits of a small natural number.
RECURSIVE IntToHex(_)
IntToHex(n) == IF n = 0 THEN <<>> ELSE Append(IntToHex(n \div 16), n % 16)

\* Conversions between base 10 and base 16 go through limbs of LimbDigits
\* base-16 digits (base LimbRadix) and chunks of DecChunk decimal digits
\* (base DecRadix), so that every product fits a machine integer.
LimbDigits == 4
LimbRadix == 65536
DecChunk == 4
DecRadix == 10000

\* The digit of weight base^k (k counted from the least significant, 0) of a
\* most-significant-first digit sequence, 0 beyond its length.
DigitAt(c, k) == IF k < Len(c) THEN c[Len(c) - k] ELSE 0

\* The value of the decimal digits d[from..to], at most DecChunk of them.
RECURSIVE DecValue(_, _, _)
DecValue(d, from, to) ==
    IF to < from THEN 0 ELSE DecValue(d, from, to - 1) * 10 + d[to]

ToLimbs(c) ==
    [i \in 1..((Len(c) + LimbDigits - 1) \div LimbDigits) |->
        DigitAt(c, ((Len(c) + LimbDigits - 1) \div LimbDigits - i) * LimbDigits)
        + 16 * DigitAt(c, ((Len(c) + LimbDigits - 1) \div LimbDigits - i) * LimbDigits + 1)
        + 256 * DigitAt(c, ((Len(c) + LimbDigits - 1) \div LimbDigits - i) * LimbDigits + 2)
        + 4096 * DigitAt(c, ((Len(c) + LimbDigits - 1) \div LimbDigits - i) * LimbDigits + 3)]

FromLimbs(l) ==
    StripZeros([j \in 1..(Len(l) * LimbDigits) |->
        (l[((j - 1) \div LimbDigits) + 1]
            \div (16 ^ (LimbDigits - 1 - ((j - 1) % LimbDigits)))) % 16])

\* l * m + a on the limbs l[i..Len(l)], schoolbook: the limbs of the product and
\* the carry out of it (m and a below DecRadix).
MulStep(limb, m, rest) ==
    [limbs |-> <<(limb * m + rest.carry) % LimbRadix>> \o rest.limbs,
     carry |-> (limb * m + rest.carry) \div LimbRadix]

RECURSIVE MulAddCarry(_, _, _, _)
MulAddCarry(l, i, m, a) ==
    IF i > Len(l) THEN [limbs |-> <<>>, carry |-> a]
    ELSE With(MulAddCarry(l, i + 1, m, a), LAMBDA rest : MulStep(l[i], m, rest))

MulAdd(l, m, a) ==
    With(MulAddCarry(l, 1, m, a),
         LAMBDA r : IF r.carry = 0 THEN r.limbs ELSE <<r.carry>> \o r.limbs)

\* The limbs of the decimal digit values d[1..n].
RECURSIVE DecToLimbs(_, _)
DecToLimbs(d, n) ==
    IF n <= DecChunk THEN <<DecValue(d, 1, n)>>
    ELSE With(DecToLimbs(d, n - DecChunk),
              LAMBDA l : MulAdd(l, DecRadix, DecValue(d, n - DecChunk + 1, n)))

\* The base-16 digits of a sequence of decimal digit values.
DecToHex(d) == With(DecToLimbs(d, Len(d)), FromLimbs)

\* Quotient and remainder of the limbs l[1..n] by DecRadix, long division from
\* the most significant limb.
DivStep(limb, prev) ==
    [r |-> (prev.r * LimbRadix + limb) % DecRadix,
     q |-> Append(prev.q, (prev.r * LimbRadix + limb) \div DecRadix)]

RECURSIVE DivRadix(_, _)
DivRadix(l, n) ==
    IF n = 0 THEN [r |-> 0, q |-> <<>>]
    ELSE With(DivRadix(l, n - 1), LAMBDA prev : DivStep(l[n], prev))

\* The decimal digits of n < DecRadix, padded to DecChunk digits.
DecDigits(n) == [i \in 1..DecChunk |-> (n \div (10 ^ (DecChunk - i))) % 10]

RECURSIVE LimbsToDec(_)
LimbsToDec(l) ==
    IF l = <<>> THEN <<>>
    ELSE With(DivRadix(l, Len(l)),
              LAMBDA d : With(StripZeros(d.q), LimbsToDec) \o DecDigits(d.r))

\* The decimal digits of a base-16 digit sequence.
HexToDec(c) == With(With(With(c, ToLimbs), LimbsToDec), StripZeros)

\* ---------------------------------------------------------------- BigNumber
NaN == [c |-> <<>>, nan |-> TRUE, neg |-> FALSE, frac |-> FALSE]
BN(neg, c, frac) == [c |-> c, nan |-> FALSE, neg |-> neg, frac |-> frac]

\* The decimal branch of the BigNumber constructor, on a lower-cased string
\* without its sign: digits, an optional point, an optional exponent (what the
\* isNumeric pattern admits).  DecimalParts cuts the string at the point and
\* the exponent mark; DecimalOf checks the parts and gives the digits of the
\* integer part and whether a non-zero fraction follows.
DecimalCut(s, ePos, dPos) ==
    [ip   |-> SubSeq(s, 1, (IF dPos > 0 THEN dPos ELSE IF ePos > 0 THEN ePos ELSE Len(s) + 1) - 1),
     fp   |-> IF dPos = 0 THEN <<>>
              ELSE SubSeq(s, dPos + 1, (IF ePos > 0 THEN ePos ELSE Len(s) + 1) - 1),
     dot  |-> dPos > 0,
     exp  |-> ePos > 0,
     eNeg |-> ePos > 0 /\ ePos < Len(s) /\ s[ePos + 1] = "-",
     eDig |-> IF ePos = 0 THEN <<>>
              ELSE SubSeq(s, IF ePos < Len(s) /\ s[ePos + 1] \in {"+", "-"}
                             THEN ePos + 2 ELSE ePos + 1, Len(s))]

DecimalParts(s) ==
    With(FirstIndex(s, "e"),
         LAMBDA ePos : With(FirstIndex(SubSeq(s, 1, IF ePos > 0 THEN ePos - 1 ELSE Len(s)), "."),
                            LAMBDA dPos : DecimalCut(s, ePos, dPos)))

\* The digits before and after the point once it is moved by the exponent.
DecimalShift(digits, point) ==
    [c |-> DecToHex(IF point >= Len(digits) THEN digits \o Rep(0, point - Len(digits))
                        ELSE IF point <= 0 THEN <<>>
                        ELSE SubSeq(digits, 1, point)),
     frac |-> \E i \in 1..Len(digits) : i > point /\ digits[i] # 0,
     valid |-> TRUE]

DecimalOf(p) ==
    IF /\ Range(p.ip) \subseteq DecSet /\ Range(p.fp) \subseteq DecSet
       /\ (Len(p.ip) > 0 \/ (p.dot /\ Len(p.fp) > 0))
       /\ (p.exp => (Len(p.eDig) > 0 /\ Range(p.eDig) \subseteq DecSet))
    THEN With(Values(p.ip \o p.fp),
              LAMBDA digits :
                  DecimalShift(digits,
                      Len(p.ip) + (IF p.eNeg THEN -1 ELSE 1)
                                  * DecValue(Values(p.eDig), 1, Len(p.eDig))))
    ELSE [c |-> <<>>, frac |-> FALSE, valid |-> FALSE]

ParseDecimal(str) == With(With(With(str, ToLowerCase), DecimalParts), DecimalOf)

\* new BigNumber(str, 16) on a string without its sign: every character must
\* be a digit of the lower-case alphabet; a string that is all upper case is
\* lowered once ("Allow e.g. hexadecimal 'FF' as well as 'ff'"), a string of
\* mixed case is not a number.
HexDigitsOf(body) ==
    IF Range(body) \subseteq LowerSet THEN body
    ELSE IF body = ToUpperCase(body) THEN ToLowerCase(body)
    ELSE body

\* ParseHex keeping the leading zero digits of the string.
ParseHex_KeepsZeros(neg, body) ==
    With(HexDigitsOf(body),
         LAMBDA low : IF low # <<>> /\ Range(low) \subseteq LowerSet
                      THEN BN(neg, Values(low), FALSE)
                      ELSE NaN)

ParseHex(neg, body) ==
    With(HexDigitsOf(body),
         LAMBDA low : IF low # <<>> /\ Range(low) \subseteq LowerSet
                      THEN BN(neg, With(Values(low), StripZeros), FALSE)
                      ELSE NaN)

\* parseNumeric: a string the decimal pattern rejects is a number only with a
\* base prefix, here 0x or 0X before word characters.
ParseNumeric(neg, body) ==
    IF /\ Len(body) >= 3 /\ body[1] = "0" /\ body[2] \in {"x", "X"}
       /\ Range(body) \cap {"-", "+", "."} = {}
    THEN With(SubSeq(body, 3, Len(body)), LAMBDA digits : ParseHex(neg, digits))
    ELSE NaN

\* new BigNumber(string)
SignedBigNumber(neg, body) ==
    With(ParseDecimal(body),
         LAMBDA d : IF d.valid THEN BN(neg, d.c, d.frac) ELSE ParseNumeric(neg, body))

BigNumberOfString(str) ==
    IF str # <<>> /\ str[1] = "-"
    THEN With(Tail(str), LAMBDA body : SignedBigNumber(TRUE, body))
    ELSE SignedBigNumber(FALSE, str)

\* A native number is [nan, neg, s]: nan for NaN and the infinities, neg its
\* sign bit (set for -0 too), s the characters of String(|n|).
\* new BigNumber(number): "Use 1 / n to handle minus zero also", then the
\* digits of the number's string.
BigNumberOfNumber(n) ==
    IF n.nan THEN NaN
    ELSE With(ParseDecimal(n.s), LAMBDA d : BN(n.neg, d.c, d.frac))

\* Parameters are records [t, s, neg, nan, bn, id]: t is the run-time type and
\* the other fields hold the value (unused fields are blank).
StringParam(s)    == [s |-> s, nan |-> FALSE, neg |-> FALSE, t |-> "string", bn |-> NaN, id |-> 0]
NumberParam(neg, s) == [s |-> s, nan |-> FALSE, neg |-> neg, t |-> "number", bn |-> NaN, id |-> 0]
NaNParam          == [s |-> <<>>, nan |-> TRUE, neg |-> FALSE, t |-> "number", bn |-> NaN, id |-> 0]
BigNumberParam(b) == [s |-> <<>>, nan |-> FALSE, neg |-> FALSE, t |-> "BigNumber", bn |-> b, id |-> 0]
U256Param(i)      == [s |-> <<>>, nan |-> FALSE, neg |-> FALSE, t |-> "U256", bn |-> NaN, id |-> i]
NullParam         == [s |-> <<>>, nan |-> FALSE, neg |-> FALSE, t |-> "null", bn |-> NaN, id |-> 0]

\* new BigNumber(value) for value: number | string | BigNumber (anything else
\* is turned into its string, which for null is no number).
BigNumberOf(param) ==
    CASE param.t = "BigNumber" -> param.bn
      [] param.t = "number"    -> BigNumberOfNumber(param)
      [] param.t = "string"    -> BigNumberOfString(param.s)
      [] OTHER                 -> NaN

isInteger(x)  == ~x.nan /\ ~x.frac
isNegative(x) == ~x.nan /\ x.neg

\* -1, 0, 1 as a < b, a = b, a > b, for digit sequences without leading zeros.
CompareDigits(a, b) ==
    IF Len(a) # Len(b) THEN (IF Len(a) < Len(b) THEN -1 ELSE 1)
    ELSE IF a = b THEN 0
    ELSE With(CHOOSE i \in 1..Len(a) : a[i] # b[i] /\ \A j \in 1..(i - 1) : a[j] = b[j],
              LAMBDA k : IF a[k] < b[k] THEN -1 ELSE 1)

\* x.comparedTo(y) of the magnitudes of the integer parts.
CompareMagnitude(x, y) ==
    With(StripZeros(x.c), LAMBDA a : With(StripZeros(y.c), LAMBDA b : CompareDigits(a, b)))

\* x.isLessThanOrEqualTo(y), y a non-negative integer.
isLessThanOrEqualTo(x, y) ==
    /\ ~x.nan
    /\ \/ x.neg
       \/ With(CompareMagnitude(x, y), LAMBDA cmp : cmp < 0 \/ (cmp = 0 /\ ~x.frac))

\* x.isEqualTo(y): numeric equality; NaN equals nothing, -0 equals 0.
BigNumber_isEqualTo(x, y) ==
    /\ ~x.nan /\ ~y.nan
    /\ CompareMagnitude(x, y) = 0
    /\ x.frac = y.frac
    /\ (x.neg = y.neg \/ (Range(x.c) \subseteq {0} /\ ~x.frac))

\* x.toString(16) of an integer x.
toString16(x) ==
    (IF x.neg /\ x.c # <<>> THEN <<"-">> ELSE <<>>) \o
    (IF x.c = <<>> THEN <<"0">> ELSE [i \in 1..Len(x.c) |-> LowerHex[x.c[i] + 1]])

\* c + 1 without the carry: only the last digit is raised, modulo 16.
PlusOneDigits_NoCarry(c) ==
    IF c = <<>> THEN <<1>>
    ELSE SubSeq(c, 1, Len(c) - 1) \o <<(c[Len(c)] + 1) % 16>>

\* c + 1: the trailing run of f digits turns to 0 and the digit before it is
\* raised, or a leading 1 is added.
PlusOneDigits(c) ==
    With(Cardinality({i \in 1..Len(c) : \A j \in i..Len(c) : c[j] = 15}),
         LAMBDA k : IF k = Len(c) THEN <<1>> \o Rep(0, k)
                    ELSE SubSeq(c, 1, Len(c) - k - 1) \o <<c[Len(c) - k] + 1>> \o Rep(0, k))

\* x.plus(1) of a non-negative integer x (every U256 holds one).
plus1(x) == BN(FALSE, PlusOneDigits(x.c), FALSE)

\* U256.MAX_VALUE
MAX_VALUE == BigNumberOfString(<<"0", "x">> \o Rep("F", MaxHexLen))

\* --------------------------------------------------------------------- RLP
\* toBuffer of the rlp package: a 0x-prefixed string is its hex digits, padded
\* to an even count, two per byte; any other string is its characters' codes;
\* the number 0 is the empty buffer, another number its big-endian bytes.
HexToBytes(d) == [i \in 1..(Len(d) \div 2) |-> d[2 * i - 1] * 16 + d[2 * i]]

RECURSIVE IntToBytes(_)
IntToBytes(n) == IF n = 0 THEN <<>> ELSE Append(IntToBytes(n \div 256), n % 256)

CharCode(ch) ==
    IF ch \in DecSet THEN 48 + DigitValue(ch)
    ELSE IF ch \in LowerSet THEN 87 + DigitValue(ch)
    ELSE IF ch = "x" THEN 120 ELSE 45

PadToEven(hex) == IF Len(hex) % 2 = 1 THEN <<0>> \o hex ELSE hex

RLP_toBuffer(v) ==
    IF v.num THEN IntToBytes(v.n)
    ELSE IF Len(v.s) >= 2 /\ v.s[1] = "0" /\ v.s[2] = "x"
    THEN With(PadToEven(Values(SubSeq(v.s, 3, Len(v.s)))), HexToBytes)
    ELSE [i \in 1..Len(v.s) |-> CharCode(v.s[i])]

\* encodeLength(len, 128): one header byte below 56 bytes, else the length of
\* the length and the length.
RLP_encodeLength(len, offset) ==
    IF len < 56 THEN <<len + offset>>
    ELSE <<offset + 55 + Len(IntToBytes(len))>> \o IntToBytes(len)

\* RLP.encode of a single item: one byte below 0x80 is its own encoding.
RLP_frame(buf) ==
    IF Len(buf) = 1 /\ buf[1] < RlpBase THEN buf
    ELSE RLP_encodeLength(Len(buf), RlpBase) \o buf

RLP_encode(v) == With(With(v, RLP_toBuffer), RLP_frame)

\* -------------------------------------------------------------------- U256
Thrown(msg) == [ok |-> FALSE, err |-> msg, value |-> NaN]
Made(v)     == [ok |-> TRUE, err |-> "", value |-> v]

\* The constructor without its check of the hexadecimal length.
U256_checked_NoRange(value) ==
    IF ~isInteger(value) \/ isNegative(value)
    THEN Thrown("U256 must be a positive integer")
    ELSE Made(value)

\* The checks of the constructor on this.value.
U256_checked(value) ==
    IF ~isInteger(value) \/ isNegative(value)
    THEN Thrown("U256 must be a positive integer")
    ELSE IF Len(toString16(value)) > MaxHexLen
    THEN Thrown("Given value is out of range for U256")
    ELSE Made(value)

\* constructor(value: number | string | BigNumber)
U256_new(param) == With(BigNumberOf(param), U256_checked)

\* The map of fromBytes without the zero padding of bytes below 0x10.
ByteToHex_NoPad(byte) ==
    IF byte < 16 THEN <<LowerHex[byte + 1]>>
    ELSE <<LowerHex[(byte \div 16) + 1], LowerHex[(byte % 16) + 1]>>

\* byte => byte < 0x10 ? `0${byte.toString(16)}` : byte.toString(16)
ByteToHex(byte) ==
    IF byte < 16 THEN <<"0", LowerHex[byte + 1]>>
    ELSE <<LowerHex[(byte \div 16) + 1], LowerHex[(byte % 16) + 1]>>

\* bytes.map(ByteToHex).join(""), from the i-th byte on.
RECURSIVE MapJoin(_, _)
MapJoin(bytes, i) ==
    IF i > Len(bytes) THEN <<>> ELSE ByteToHex(bytes[i]) \o MapJoin(bytes, i + 1)

\* fromBytes without the comparison of bytes.length with the declared length.
fromBytes_NoLengthCheck(buffer) ==
    IF buffer = <<>> THEN Thrown("Invalid RLP for U256")
    ELSE IF buffer[1] - RlpBase > MaxByteLen
    THEN Thrown("Buffer for U256 must be less than or equal to 32")
    ELSE IF buffer[1] - RlpBase = 0
    THEN U256_new(NumberParam(FALSE, <<"0">>))
    ELSE With(<<"0", "x">> \o MapJoin(buffer, 2), LAMBDA s : U256_new(StringParam(s)))

\* static fromBytes(buffer).  shift() of an empty array is undefined and
\* undefined - 0x80 is NaN, which is neither > 32 nor equal to any length.
fromBytes(buffer) ==
    IF buffer = <<>> THEN Thrown("Invalid RLP for U256")
    ELSE IF buffer[1] - RlpBase > MaxByteLen
    THEN Thrown("Buffer for U256 must be less than or equal to 32")
    ELSE IF Len(buffer) - 1 # buffer[1] - RlpBase
    THEN Thrown("Invalid RLP for U256")
    ELSE IF buffer[1] - RlpBase = 0
    THEN U256_new(NumberParam(FALSE, <<"0">>))
    ELSE With(<<"0", "x">> \o MapJoin(buffer, 2), LAMBDA s : U256_new(StringParam(s)))

\* private static checkString(param)
checkString(param) ==
    IF param.t # "string" THEN FALSE
    ELSE With(BigNumberOfString(param.s),
              LAMBDA num : isInteger(num) /\ ~isNegative(num)
                           /\ isLessThanOrEqualTo(num, MAX_VALUE))

\* Number.isInteger(n) and n >= 0 of a native number (-0 >= 0 holds).
Number_isInteger(n) == ~n.nan /\ ~ParseDecimal(n.s).frac
Number_gte0(n) ==
    ~n.nan /\ (~n.neg \/ With(ParseDecimal(n.s), LAMBDA d : d.c = <<>> /\ ~d.frac))

\* static check(param)
check(param) ==
    IF param.t = "U256" THEN TRUE
    ELSE IF param.t = "BigNumber"
    THEN isInteger(param.bn) /\ ~isNegative(param.bn)
         /\ isLessThanOrEqualTo(param.bn, MAX_VALUE)
    ELSE IF param.t = "number"
    THEN Number_isInteger(param) /\ Number_gte0(param)
    ELSE checkString(param)

\* toEncodeObject(): the number 0 for zero, else the 0x-prefixed hex with an
\* even number of digits.  EncNum / EncStr are the two shapes of the result.
EncNum(n) == [n |-> n, s |-> <<>>, num |-> TRUE]
EncStr(s) == [n |-> 0, s |-> s, num |-> FALSE]

\* toEncodeObject without the padding to an even number of digits.
EncodeHex_NoPad(hex) ==
    IF hex = <<"0">> THEN EncNum(0) ELSE EncStr(<<"0", "x">> \o hex)

\* toEncodeObject without the special case of zero.
EncodeHex_NoZero(hex) ==
    IF Len(hex) % 2 = 0 THEN EncStr(<<"0", "x">> \o hex)
    ELSE EncStr(<<"0", "x", "0">> \o hex)

EncodeHex(hex) ==
    IF hex = <<"0">> THEN EncNum(0)
    ELSE IF Len(hex) % 2 = 0 THEN EncStr(<<"0", "x">> \o hex)
    ELSE EncStr(<<"0", "x", "0">> \o hex)

toEncodeObject(value) == With(toString16(value), EncodeHex)

\* rlpBytes()
rlpBytes(value) == With(toEncodeObject(value), RLP_encode)

\* isEqualTo(rhs)
isEqualTo(value, rhs) == BigNumber_isEqualTo(value, rhs)

\* x.toString(10) of a non-negative integer: with a base given the result is
\* never in exponential notation.
toString10(x) ==
    IF x.c = <<>> THEN <<"0">>
    ELSE With(HexToDec(x.c), LAMBDA d : [i \in 1..Len(d) |-> LowerHex[d[i] + 1]])

\* toString(base?: 10 | 16): base || 10; an absent base is 0 here.
toString(value, base) ==
    IF base = 16 THEN toString16(value) ELSE toString10(value)

\* ------------------------------------------------------------------ inputs
\* Strings handed to the constructor, check and ensure: 15 in decimal and
\* upper-case hex, 16 in lower-case hex, a mixed-case hex string, malformed
\* strings, MAX_VALUE and MAX_VALUE + 1 in hex.
Strings ==
    { <<"1", "5">>, <<"0", "x", "1", "0">>, <<"0", "X", "F">>,
      <<"0", "x", "F", "f">>, <<"a", "b", "c">>, <<"-", "5">>, <<"1", ".", "5">>,
      <<"0", "x">> \o Rep("f", MaxHexLen),
      <<"0", "x", "1">> \o Rep("0", MaxHexLen) }

\* Native numbers: 0, -0, 16, 1.5, -1, NaN and 2 ** 256, whose string is
\* 1.157920892373162e+77.
Numbers ==
    { NumberParam(FALSE, <<"0">>), NumberParam(TRUE, <<"0">>),
      NumberParam(FALSE, <<"1", "6">>),
      NumberParam(FALSE, <<"1", ".", "5">>), NumberParam(TRUE, <<"1">>), NaNParam,
      NumberParam(FALSE, <<"1", ".", "1", "5", "7", "9", "2", "0", "8", "9", "2",
                           "3", "7", "3", "1", "6", "2", "e", "+", "7", "7">>) }

\* BigNumbers: 16, -1, 1.5, NaN and MAX_VALUE + 1.
BigNumbers ==
    { BN(FALSE, <<1, 0>>, FALSE), BN(TRUE, <<1>>, FALSE), BN(FALSE, <<1>>, TRUE), NaN,
      BN(FALSE, <<1>> \o Rep(0, MaxHexLen), FALSE) }

DirectParams ==
    {StringParam(s) : s \in Strings} \cup Numbers
    \cup {BigNumberParam(b) : b \in BigNumbers} \cup {NullParam}

\* Buffers handed to fromBytes besides the encoder's own output: the empty
\* buffer, the empty string, single bytes below 0x80, a header without its
\* payload, payloads with and without leading zero bytes, one byte above
\* 0x7f, a payload longer than declared, 32 and 33 payload bytes, a long-string header and a list.
Buffers ==
    { <<>>, <<128>>, <<0>>, <<16>>, <<129>>, <<129, 16>>, <<129, 0>>,
      <<130, 0, 1>>, <<130, 1, 5>>, <<129, 200>>, <<129, 1, 2>>,
      <<RlpBase + MaxByteLen>> \o Rep(255, MaxByteLen),
      <<RlpBase + MaxByteLen + 1>> \o <<1>> \o Rep(0, MaxByteLen),
      <<184, 56>> \o Rep(1, 56), <<192>> }

\* ------------------------------------------------------------------- state
\* instances: the U256 objects made so far, by identity (their index);
\* last: the last call, its arguments and what it returned or threw.
Blank ==
    [str |-> <<>>,
     id |-> 0,
     param |-> NullParam,
     buf |-> <<>>,
     ok |-> TRUE,
     err |-> "",
     bytes |-> <<>>,
     base |-> 0,
     op |-> "none",
     self |-> 0,
     other |-> 0,
     obj |-> EncNum(0),
     bool |-> FALSE]

Init ==
    /\ instances = <<>>
    /\ last = Blank

Ids == 1..Len(instances)

\* A call that returns a new object.
Produce(call, r) ==
    /\ r.ok => Len(instances) < MaxInstances
    /\ instances' = IF r.ok THEN Append(instances, [value |-> r.value]) ELSE instances
    /\ last' = [call EXCEPT !.ok = r.ok, !.err = r.err,
                            !.id = IF r.ok THEN Len(instances) + 1 ELSE 0]

\* new U256(param)
Construct(param) ==
    \E r \in {U256_new(param)} :
        Produce([Blank EXCEPT !.op = "new", !.param = param], r)

\* U256.ensure(param): param instanceof U256 ? param : new U256(param)
Ensure(param) ==
    IF param.t = "U256"
    THEN /\ last' = [Blank EXCEPT !.op = "ensure", !.param = param, !.id = param.id]
         /\ UNCHANGED instances
    ELSE \E r \in {U256_new(param)} :
             Produce([Blank EXCEPT !.op = "ensure", !.param = param], r)

\* U256.check(param)
Check(param) ==
    /\ last' = [Blank EXCEPT !.op = "check", !.param = param, !.bool = check(param)]
    /\ UNCHANGED instances

\* instances[i].increase(): new U256(this.value.plus(1))
Increase(i) ==
    \E sum \in {plus1(instances[i].value)} :
        \E r \in {U256_new(BigNumberParam(sum))} :
            Produce([Blank EXCEPT !.op = "increase", !.self = i], r)

\* U256.fromBytes(buffer); self is the object whose rlpBytes() the buffer is,
\* when it is the buffer the last call returned.
FromBytes(buffer, self) ==
    \E r \in {fromBytes(buffer)} :
        Produce([Blank EXCEPT !.op = "fromBytes", !.buf = buffer, !.self = self], r)

ToEncodeObject(i) ==
    /\ last' = [Blank EXCEPT !.op = "toEncodeObject", !.self = i,
                             !.obj = toEncodeObject(instances[i].value)]
    /\ UNCHANGED instances

RlpBytes(i) ==
    /\ last' = [Blank EXCEPT !.op = "rlpBytes", !.self = i,
                             !.bytes = rlpBytes(instances[i].value)]
    /\ UNCHANGED instances

IsEqualTo(i, j) ==
    /\ last' = [Blank EXCEPT !.op = "isEqualTo", !.self = i, !.other = j,
                             !.bool = isEqualTo(instances[i].value, instances[j].value)]
    /\ UNCHANGED instances

ToStringOf(i, base) ==
    /\ last' = [Blank EXCEPT !.op = "toString", !.self = i, !.base = base,
                             !.str = toString(instances[i].value, base)]
    /\ UNCHANGED instances

Next ==
    \/ \E p \in DirectParams : Construct(p)
    \/ \E p \in DirectParams \cup {U256Param(i) : i \in Ids} : Ensure(p)
    \/ \E p \in DirectParams \cup {U256Param(i) : i \in Ids} : Check(p)
    \/ \E i \in Ids : Increase(i)
    \/ \E b \in Buffers : FromBytes(b, 0)
    \/ last.op = "rlpBytes" /\ FromBytes(last.bytes, last.self)
    \/ \E i \in Ids : ToEncodeObject(i)
    \/ \E i \in Ids : RlpBytes(i)
    \/ \E i, j \in Ids : IsEqualTo(i, j)
    \/ \E i \in Ids, base \in {0, 10, 16} : ToStringOf(i, base)

Spec == Init /\ [][Next]_vars

\* --------------------------------------------------------------- properties
\* Vocabulary of the properties, stated on bytes and digits directly.

\* v is an integer with 0 <= v <= 2^256 - 1: at most MaxHexLen base-16 digits.
InRange(v) ==
    /\ ~v.nan /\ ~v.frac /\ ~v.neg
    /\ Len(v.c) <= MaxHexLen
    /\ \A k \in 1..Len(v.c) : v.c[k] \in 0..15
    /\ v.c # <<>> => v.c[1] # 0

\* v is a number that is negative, not an integer or above 2^256 - 1.
OutOfRange(v) ==
    /\ ~v.nan
    /\ \/ v.frac
       \/ v.neg /\ Range(v.c) # {} /\ Range(v.c) # {0}
       \/ \E k \in 1..Len(v.c) : v.c[k] # 0 /\ Len(v.c) - k >= MaxHexLen

\* The minimal big-endian bytes of the number with digits c (no leading zero
\* digit): byte k takes the two digits that end 2 * (n - k) places from the end.
BytesOfDigits(c) ==
    LET n == (Len(c) + 1) \div 2
        digit(p) == IF p >= 1 THEN c[p] ELSE 0
    IN  [k \in 1..n |-> 16 * digit(Len(c) - 2 * (n - k) - 1) + digit(Len(c) - 2 * (n - k))]

\* The digits of the unsigned big-endian number held by bytes, without
\* leading zeros.
DigitsOfBytes(bytes) ==
    LET nibble(p) == IF p % 2 = 1 THEN bytes[(p + 1) \div 2] \div 16
                     ELSE bytes[p \div 2] % 16
        nz == {p \in 1..(2 * Len(bytes)) : nibble(p) # 0}
    IN  IF nz = {} THEN <<>>
        ELSE LET lead == CHOOSE p \in nz : \A q \in nz : p <= q
             IN  [p \in 1..(2 * Len(bytes) - lead + 1) |-> nibble(lead + p - 1)]

\* One header byte 0x80 + length, length in 0..32, then exactly length bytes.
WellFramed(b) ==
    /\ Len(b) >= 1
    /\ b[1] - RlpBase \in 0..MaxByteLen
    /\ Len(b) - 1 = b[1] - RlpBase

\* b = a + 1 on digit sequences: a ends in k digits f where b ends in k
\* digits 0, and before them b is a with its last digit raised, or a lone 1.
IsSuccessor(a, b) ==
    \E k \in 0..Len(a) :
        /\ Len(b) > k
        /\ \A j \in 1..k : a[Len(a) - k + j] = 15 /\ b[Len(b) - k + j] = 0
        /\ \/ Len(a) = k /\ Len(b) = k + 1 /\ b[1] = 1
           \/ /\ Len(a) = Len(b)
              /\ \A j \in 1..(Len(a) - k - 1) : a[j] = b[j]
              /\ b[Len(b) - k] = a[Len(a) - k] + 1

IsZero(i) == instances[i].value.c = <<>>

\* C1 (as stated): whenever fromBytes is applied to the rlpBytes() of an
\* instance, of any value from 0 to 2^256 - 1, it succeeds and returns an
\* instance of equal value.
C1_RoundTrip ==
    (last.op = "fromBytes" /\ last.self # 0) =>
        /\ last.ok
        /\ isEqualTo(instances[last.id].value, instances[last.self].value)

\* The round trip of a value from 1 to 127 has been tried and fromBytes threw.
C1_RoundTripFails ==
    /\ last.op = "fromBytes" /\ last.self # 0 /\ ~last.ok
    /\ instances[last.self].value.c = <<15>>
    /\ last.buf = <<15>>

\* C2: every instance holds an integer from 0 to 2^256 - 1; the constructor
\* and ensure throw on a negative, non-integral or too large input; increase()
\* of 2^256 - 1 throws, and an increase that returns never returns zero.
C2_RangeInvariant ==
    /\ \A i \in Ids : InRange(instances[i].value)
    /\ (/\ last.op \in {"new", "ensure"} /\ last.param.t # "U256"
        /\ OutOfRange(BigNumberOf(last.param))) => ~last.ok
    /\ (last.op = "increase" /\ instances[last.self].value.c = Rep(15, MaxHexLen))
           => ~last.ok
    /\ (last.op = "increase" /\ last.ok) => ~IsZero(last.id)
    /\ (last.op \in {"new", "ensure", "increase", "fromBytes"} /\ last.ok)
           => last.id \in Ids

\* increase() has been called on 2^256 - 1 and threw.
C2_IncreaseOfMaxThrows ==
    /\ last.op = "increase" /\ ~last.ok
    /\ instances[last.self].value.c = Rep(15, MaxHexLen)
    /\ last.err = "Given value is out of range for U256"

\* C3 (as stated): rlpBytes() of every non-zero value is the header byte
\* 0x80 + n followed by the n bytes of its minimal big-endian representation.
C3_HeaderAlways ==
    (last.op = "rlpBytes" /\ ~IsZero(last.self)) =>
        LET b == BytesOfDigits(instances[last.self].value.c)
        IN  last.bytes = <<RlpBase + Len(b)>> \o b

\* C3 (amended): rlpBytes() of a non-zero value is its minimal big-endian
\* bytes (1 to 32 of them, the first non-zero) behind the header byte
\* 0x80 + n, except that a value from 1 to 127 is the single byte of that
\* value with no header; toEncodeObject() is "0x" and the lower-case hex of
\* the value, with one more 0 in front when its digit count is odd.
C3_WireFormat ==
    /\ (last.op = "rlpBytes" /\ ~IsZero(last.self)) =>
           LET b == BytesOfDigits(instances[last.self].value.c)
           IN  /\ Len(b) \in 1..MaxByteLen
               /\ b[1] # 0
               /\ last.bytes = IF Len(b) = 1 /\ b[1] < RlpBase THEN b
                               ELSE <<RlpBase + Len(b)>> \o b
    /\ (last.op = "toEncodeObject" /\ ~IsZero(last.self)) =>
           LET c == instances[last.self].value.c
           IN  /\ ~last.obj.num
               /\ last.obj.s = <<"0", "x">>
                               \o (IF Len(c) % 2 = 1 THEN <<"0">> ELSE <<>>)
                               \o [k \in 1..Len(c) |-> LowerHex[c[k] + 1]]

\* rlpBytes() of 2^256 - 1 has been taken: a header and 32 payload bytes.
C3_HeaderAndPayload ==
    /\ last.op = "rlpBytes"
    /\ Len(last.bytes) = MaxByteLen + 1
    /\ last.bytes[1] = RlpBase + MaxByteLen

\* C4: fromBytes returns an instance exactly for the buffers made of one
\* header byte 0x80 + length, length from 0 to 32, and exactly length payload
\* bytes; for every other buffer it throws.
C4_AcceptanceSet ==
    last.op = "fromBytes" =>
        /\ last.ok <=> WellFramed(last.buf)
        /\ ~last.ok => last.id = 0
        /\ (last.buf # <<>> /\ last.buf[1] - RlpBase > MaxByteLen)
               => last.err = "Buffer for U256 must be less than or equal to 32"

\* fromBytes has thrown on a declared length of 33.
C4_TooLongRejected ==
    /\ last.op = "fromBytes" /\ ~last.ok
    /\ last.buf # <<>> /\ last.buf[1] = RlpBase + MaxByteLen + 1

\* C5 (as stated): a buffer that fromBytes accepts is the encoding of the
\* value it returns; payloads with leading zero bytes are rejected.
C5_OnlyCanonicalAccepted ==
    (last.op = "fromBytes" /\ last.ok) =>
        rlpBytes(instances[last.id].value) = last.buf

\* fromBytes has accepted a payload with a leading zero byte.
C5_LeadingZeroAccepted ==
    /\ last.op = "fromBytes" /\ last.ok
    /\ last.buf = <<130, 0, 1>>
    /\ rlpBytes(instances[last.id].value) = <<1>>

\* C6 (as stated): rlpBytes() of zero is a single byte other than the
\* empty-string encoding 0x80, which the encoder never emits.
C6_ZeroNotEmptyString ==
    (last.op = "rlpBytes" /\ IsZero(last.self)) =>
        Len(last.bytes) = 1 /\ last.bytes # <<RlpBase>>

\* C6 (amended): toEncodeObject() of zero is the number 0; rlpBytes() of
\* zero is exactly the empty-string encoding [0x80]; fromBytes([0x80])
\* returns zero, and fromBytes of the single byte 0x00 throws.
C6_ZeroEncoding ==
    /\ (last.op = "toEncodeObject" /\ IsZero(last.self)) =>
           last.obj.num /\ last.obj.n = 0
    /\ (last.op = "rlpBytes" /\ IsZero(last.self)) => last.bytes = <<RlpBase>>
    /\ (last.op = "fromBytes" /\ last.buf = <<RlpBase>>) => last.ok /\ IsZero(last.id)
    /\ (last.op = "fromBytes" /\ last.buf = <<0>>) => ~last.ok

\* The rlpBytes() of a zero instance has been decoded again, to zero.
C6_ZeroRoundTrip ==
    /\ last.op = "fromBytes" /\ last.self # 0 /\ last.ok
    /\ IsZero(last.self) /\ IsZero(last.id)
    /\ last.buf = <<RlpBase>>

\* C7 (as stated): check(input) is true exactly when new U256(input)
\* returns, for every input that is not already an instance.
C7_CheckAgreesWithConstructor ==
    (last.op = "check" /\ last.param.t # "U256") =>
        (last.bool <=> U256_new(last.param).ok)

\* check has returned true for a native number the constructor refuses.
C7_CheckAcceptsRefusedNumber ==
    /\ last.op = "check" /\ last.bool
    /\ last.param.t = "number"
    /\ ~U256_new(last.param).ok

\* C8: two instances that isEqualTo holds of have the same rlpBytes(), and
\* an isEqualTo call that returned true was on two such instances.
C8_Canonical ==
    /\ \A i, j \in Ids :
           isEqualTo(instances[i].value, instances[j].value)
               => rlpBytes(instances[i].value) = rlpBytes(instances[j].value)
    /\ (last.op = "isEqualTo" /\ last.bool) =>
           rlpBytes(instances[last.self].value) = rlpBytes(instances[last.other].value)

\* isEqualTo has returned true on two different instances.
C8_EqualDistinctInstances ==
    /\ last.op = "isEqualTo" /\ last.bool
    /\ last.self # last.other

\* C9: the instance fromBytes returns holds the unsigned big-endian number of
\* the payload bytes, zero for an empty payload; fromBytes throws only its
\* own two errors, never the constructor's.
C9_DecodedValue ==
    last.op = "fromBytes" =>
        /\ last.ok => instances[last.id].value
                          = BN(FALSE, DigitsOfBytes(Tail(last.buf)), FALSE)
        /\ ~last.ok => last.err \in {"Invalid RLP for U256",
                                     "Buffer for U256 must be less than or equal to 32"}

\* fromBytes has decoded a payload whose bytes are below 0x10.
C9_PaddedBytesDecoded ==
    /\ last.op = "fromBytes" /\ last.ok
    /\ last.buf = <<130, 1, 5>>
    /\ instances[last.id].value.c = <<1, 0, 5>>

\* C10: no step changes or removes an existing instance; an increase() that
\* returns yields a new instance holding the receiver's value plus one; and
\* ensure of an instance returns that very instance and makes none.
C10_Immutable ==
    [][ /\ Len(instances') >= Len(instances)
        /\ \A i \in Ids : instances'[i] = instances[i]
        /\ (last'.op = "increase" /\ last'.ok) =>
               /\ last'.id = Len(instances) + 1
               /\ last'.self \in Ids
               /\ IsSuccessor(instances[last'.self].value.c, instances'[last'.id].value.c)
               /\ InRange(instances'[last'.id].value)
        /\ (last'.op = "ensure" /\ last'.param.t = "U256") =>
               /\ last'.id = last'.param.id
               /\ instances' = instances
      ]_vars

\* increase() of 15 has returned: the carry into a new digit.
C10_IncreaseCarries ==
    /\ last.op = "increase" /\ last.ok
    /\ instances[last.self].value.c = <<15>>
    /\ instances[last.id].value.c = <<1, 0>>

====
